---- MODULE Spec2Model ----
(***************************************************************************)
(* Emotion detection: emotion_detector (remote Watson call with a keyword  *)
(* fallback) and the Flask handler POST /emotionDetector that renders it.  *)
(*                                                                         *)
(* Strings are sequences of one-character strings, so that strip, lower    *)
(* and the substring test "w in text_l" are computed character by          *)
(* character.  A Python float is an exact fraction n/d in lowest terms     *)
(* (d > 0), and NaN is the value with d = 0; IEEE rounding of the last     *)
(* bit is not modelled.                                                    *)
(***************************************************************************)
EXTENDS Integers, Sequences, FiniteSets, TLC

VARIABLES pc, via, text_to_analyze, transport, resp, out, buckets,
          posts, fallbacks, raised, page

vars == <<pc, via, text_to_analyze, transport, resp, out, buckets,
          posts, fallbacks, raised, page>>

\* Longest input text, in fragments of Vocab.
MaxFrags == 2

\* Most keys present in the emotion object of a remote body.
MaxKeys == 2

------------------------------------------------------------------------------
\* Values: floats, None, and a key missing from a dict.

Abs(x) == IF x < 0 THEN -x ELSE x

RECURSIVE GCD(_, _)
GCD(a, b) == IF b = 0 THEN a ELSE GCD(b, a % b)

\* The float n/d, d > 0, in lowest terms.
Float(n, d) ==
    LET g == GCD(Abs(n), d)
    IN  [t |-> "float", n |-> n \div g, d |-> d \div g]

NaN == [t |-> "float", n |-> 0, d |-> 0]

None == [t |-> "None", n |-> 0, d |-> 0]

\* The value of a key that a JSON object does not hold.
Absent == [t |-> "absent", n |-> 0, d |-> 0]

\* dominant_emotion = None.
NoDominant == "None"

IsNaN(x) == x.d = 0

\* Python's a > b on floats: every comparison with NaN is False.
Gt(a, b) == ~IsNaN(a) /\ ~IsNaN(b) /\ a.n * b.d > b.n * a.d

\* Python's a + b on floats.
Add(a, b) ==
    IF IsNaN(a) \/ IsNaN(b) THEN NaN
    ELSE Float(a.n * b.d + b.n * a.d, a.d * b.d)

\* Python's v / total on floats, total > 0.
Div(v, total) == Float(v.n * total.d, v.d * total.n)

\* The dict order of the five scores.
Emotions == <<"anger", "disgust", "fear", "joy", "sadness">>

EmotionNames == {Emotions[i] : i \in 1..Len(Emotions)}

------------------------------------------------------------------------------
\* Strings.

Whitespace == {" ", "\t", "\n"}

UpperChars == <<"A", "B", "C", "D", "E", "F", "G", "H", "I", "J", "K", "L", "M",
                "N", "O", "P", "Q", "R", "S", "T", "U", "V", "W", "X", "Y", "Z">>

LowerChars == <<"a", "b", "c", "d", "e", "f", "g", "h", "i", "j", "k", "l", "m",
                "n", "o", "p", "q", "r", "s", "t", "u", "v", "w", "x", "y", "z">>

LowerTable ==
    [c \in {UpperChars[i] : i \in 1..Len(UpperChars)} |->
        LowerChars[CHOOSE i \in 1..Len(UpperChars) : UpperChars[i] = c]]

lower_char(c) == IF c \in DOMAIN LowerTable THEN LowerTable[c] ELSE c

\* str.lower()
lower(s) == [i \in 1..Len(s) |-> lower_char(s[i])]

\* str.strip(): drop the leading and the trailing whitespace.
strip(s) ==
    LET keep == {i \in 1..Len(s) : s[i] \notin Whitespace}
    IN  IF keep = {} THEN <<>>
        ELSE LET first == CHOOSE i \in keep : \A j \in keep : i <= j
                 last  == CHOOSE i \in keep : \A j \in keep : j <= i
             IN  SubSeq(s, first, last)

\* Faulty variant: a keyword counts only as a whole word, between non-letters.
ContainsWord(w, t) ==
    \E i \in 1..(Len(t) - Len(w) + 1) :
        /\ \A j \in 1..Len(w) : t[i + j - 1] = w[j]
        /\ (i = 1 \/ \A c \in 1..Len(LowerChars) : LowerChars[c] # t[i - 1])
        /\ (i + Len(w) > Len(t)
            \/ \A c \in 1..Len(LowerChars) : LowerChars[c] # t[i + Len(w)])

\* "w in t": w occurs in t as a substring.
ContainsSubstring(w, t) ==
    \E i \in 1..(Len(t) - Len(w) + 1) : \A j \in 1..Len(w) : t[i + j - 1] = w[j]

\* The keyword lists of the fallback detector.
AngerWords ==
    << <<"a", "n", "g", "r", "y">>,
       <<"m", "a", "d">>,
       <<"h", "a", "t", "e">>,
       <<"f", "u", "r", "i", "o", "u", "s">>,
       <<"a", "n", "n", "o", "y">> >>

DisgustWords ==
    << <<"d", "i", "s", "g", "u", "s", "t">>,
       <<"d", "i", "s", "g", "u", "s", "t", "e", "d">>,
       <<"g", "r", "o", "s", "s">> >>

FearWords ==
    << <<"a", "f", "r", "a", "i", "d">>,
       <<"s", "c", "a", "r", "e", "d">>,
       <<"f", "e", "a", "r">>,
       <<"t", "e", "r", "r", "i", "f", "i", "e", "d">> >>

JoyWords ==
    << <<"h", "a", "p", "p", "y">>,
       <<"g", "l", "a", "d">>,
       <<"l", "o", "v", "e">>,
       <<"j", "o", "y">>,
       <<"e", "x", "c", "i", "t", "e", "d">> >>

SadnessWords ==
    << <<"s", "a", "d">>,
       <<"u", "n", "h", "a", "p", "p", "y">>,
       <<"d", "e", "p", "r", "e", "s", "s", "e", "d">>,
       <<"s", "o", "r", "r", "o", "w">> >>

Keywords ==
    [anger |-> AngerWords, disgust |-> DisgustWords, fear |-> FearWords,
     joy |-> JoyWords, sadness |-> SadnessWords]

------------------------------------------------------------------------------
\* Result dicts.

MakeOut(scores, dominant, code) ==
    [anger |-> scores["anger"], disgust |-> scores["disgust"],
     fear |-> scores["fear"], joy |-> scores["joy"],
     sadness |-> scores["sadness"],
     dominant_emotion |-> dominant, status_code |-> code]

_none_result == MakeOut([k \in EmotionNames |-> None], NoDominant, 400)

\* No result yet.
NoOut == MakeOut([k \in EmotionNames |-> None], NoDominant, 0)

\* max(out, key=out.get) over the five scores in dict order: the first key
\* is kept until a later one compares greater.
RECURSIVE max_from(_, _, _)
max_from(scores, i, best) ==
    IF i > Len(Emotions) THEN best
    ELSE max_from(scores, i + 1,
                  IF Gt(scores[Emotions[i]], scores[best])
                  THEN Emotions[i] ELSE best)

max_key(scores) == max_from(scores, 2, Emotions[1])

\* Faulty variant: every occurrence of a keyword adds 1.0, not its presence.
RECURSIVE count_loop_occurrences(_, _, _)
count_loop_occurrences(words, i, text_l) ==
    IF i > Len(words) THEN 0
    ELSE Cardinality({p \in 1..(Len(text_l) - Len(words[i]) + 1) :
                         \A j \in 1..Len(words[i]) : text_l[p + j - 1] = words[i][j]})
         + count_loop_occurrences(words, i + 1, text_l)

\* buckets before the loops.
NoBuckets == [k \in EmotionNames |-> 0]

\* One "for w in (...): if w in text_l: buckets[k] += 1.0" loop.
RECURSIVE count_loop(_, _, _)
count_loop(words, i, text_l) ==
    IF i > Len(words) THEN 0
    ELSE (IF ContainsSubstring(words[i], text_l) THEN 1 ELSE 0)
         + count_loop(words, i + 1, text_l)

\* The counters after the five loops.
rule_based_buckets(text) ==
    LET text_l == lower(text)
    IN  [k \in EmotionNames |-> count_loop(Keywords[k], 1, text_l)]

DefaultScores ==
    [anger |-> Float(1, 10), disgust |-> Float(5, 100), fear |-> Float(5, 100),
     joy |-> Float(6, 10), sadness |-> Float(2, 10)]

RECURSIVE sum_values(_, _)
sum_values(scores, i) ==
    IF i > Len(Emotions) THEN Float(0, 1)
    ELSE Add(scores[Emotions[i]], sum_values(scores, i + 1))

\* Lines 58-69: the result built from the counters b.
scores_from_buckets(b) ==
    LET total == sum_values(b, 1)
    IN  IF total = Float(0, 1)
        THEN MakeOut(DefaultScores, max_key(DefaultScores), 200)
        ELSE LET scores == [k \in EmotionNames |-> Div(b[k], total)]
             IN  MakeOut(scores, max_key(scores), 200)

\* The counters as floats.
float_buckets(counts) == [k \in EmotionNames |-> Float(counts[k], 1)]

\* Faulty variant: the counters are returned as they are, not divided by total.
_rule_based_detector_unnormalized(text) ==
    LET b == float_buckets(rule_based_buckets(text))
    IN  IF sum_values(b, 1) = Float(0, 1)
        THEN MakeOut(DefaultScores, max_key(DefaultScores), 200)
        ELSE MakeOut(b, max_key(b), 200)

_rule_based_detector(text) ==
    scores_from_buckets(float_buckets(rule_based_buckets(text)))

------------------------------------------------------------------------------
\* The remote response.

\* What resp.json() and j["emotionPredictions"][0]["emotion"] find:
\*   notjson    the body is no JSON (resp.json() raises)
\*   array      the top-level value is a list (TypeError)
\*   nokey      an object without "emotionPredictions" (KeyError)
\*   emptylist  "emotionPredictions": [] (IndexError)
\*   noemotion  a first prediction without "emotion" (KeyError)
\*   nonobject  "emotion" is a string (no .get: AttributeError)
\*   object     "emotion" is an object
MalformedShapes ==
    {"notjson", "array", "nokey", "emptylist", "noemotion", "nonobject"}

NoEmotions == [k \in EmotionNames |-> Absent]

Body(shape, emotion) == [shape |-> shape, emotion |-> emotion]

NoResp == [status_code |-> 0, body |-> Body("notjson", NoEmotions)]

\* float(x): a float stays, None raises TypeError.
float_raises(x) == x.t # "float"

\* Faulty variant: "sadness" is read from the key "joy".
parse_response_joy_for_sadness(body) ==
    IF body.shape # "object"
    THEN [ok |-> FALSE, out |-> NoOut]
    ELSE LET emotions == body.emotion
             get(k) == IF emotions[k] = Absent THEN Float(0, 1) ELSE emotions[k]
             key(k) == IF k = "sadness" THEN "joy" ELSE k
         IN  IF \E k \in EmotionNames : float_raises(get(key(k)))
             THEN [ok |-> FALSE, out |-> NoOut]
             ELSE LET scores == [k \in EmotionNames |-> get(key(k))]
                  IN  [ok |-> TRUE, out |-> MakeOut(scores, max_key(scores), 200)]

\* The try block of the 200 branch: ok is FALSE when it raised.
parse_response(body) ==
    IF body.shape # "object"
    THEN [ok |-> FALSE, out |-> NoOut]
    ELSE LET emotions == body.emotion
             get(k) == IF emotions[k] = Absent THEN Float(0, 1) ELSE emotions[k]
         IN  IF \E k \in EmotionNames : float_raises(get(k))
             THEN [ok |-> FALSE, out |-> NoOut]
             ELSE LET scores == [k \in EmotionNames |-> get(k)]
                  IN  [ok |-> TRUE, out |-> MakeOut(scores, max_key(scores), 200)]

\* What a part of emotion_detector leaves: the dict returned, whether the
\* fallback detector ran and the counters it reached, and whether an
\* exception left the function.
Returned(o) ==
    [out |-> o, fallback |-> FALSE, buckets |-> NoBuckets, exc |-> FALSE]

\* out = _rule_based_detector(text); out["status_code"] = 200; return out
Fallback(text) ==
    [out |-> [_rule_based_detector(text) EXCEPT !.status_code = 200],
     fallback |-> TRUE, buckets |-> rule_based_buckets(text), exc |-> FALSE]

\* Faulty variant: only the empty text is blank.
is_blank_no_strip(text) == Len(text) = 0

\* "if not text_to_analyze or not text_to_analyze.strip()"
is_blank(text) == Len(text) = 0 \/ Len(strip(text)) = 0

\* except Exception around requests.post
on_post_exception(text) ==
    Fallback(text)

\* Faulty variant: a 400 is handled like any other status that is not 200.
on_response_400_fallback(text, r) ==
    IF r.status_code = 200
    THEN LET p == parse_response(r.body)
         IN  IF p.ok THEN Returned(p.out)
             ELSE Fallback(text)
    ELSE Fallback(text)

\* Faulty variant: the 200 branch parses without a try block.
on_response_no_except(text, r) ==
    IF r.status_code = 400 THEN Returned(_none_result)
    ELSE IF r.status_code = 200
    THEN LET p == parse_response(r.body)
         IN  IF p.ok THEN Returned(p.out)
             ELSE [Returned(NoOut) EXCEPT !.exc = TRUE]
    ELSE Fallback(text)

\* emotion_detector after requests.post returned resp
on_response(text, r) ==
    IF r.status_code = 400 THEN Returned(_none_result)
    ELSE IF r.status_code = 200
    THEN LET p == parse_response(r.body)
         IN  IF p.ok THEN Returned(p.out)
             ELSE Fallback(text)
    ELSE Fallback(text)

------------------------------------------------------------------------------
\* The web layer.

InvalidText == "Invalid text! Please try again!"

FormatText ==
    "For the given statement, the system response is 'anger': {}, 'disgust': {}, 'fear': {}, 'joy': {} and 'sadness': {}. The dominant emotion is {}."

\* A response body: the fixed text and the values put in its places.
Page(template, scores, dominant) ==
    [template |-> template, scores |-> scores, dominant |-> dominant]

NoPage == Page("", <<>>, "")

\* Faulty variant: joy and sadness change places in the sentence.
render_swapped(response) ==
    IF response.status_code = 400 \/ response.dominant_emotion = NoDominant
    THEN Page(InvalidText, <<>>, "")
    ELSE Page(FormatText,
              <<response.anger, response.disgust, response.fear,
                response.sadness, response.joy>>,
              response.dominant_emotion)

\* detect_emotion after emotion_detector returned response
render(response) ==
    IF response.status_code = 400 \/ response.dominant_emotion = NoDominant
    THEN Page(InvalidText, <<>>, "")
    ELSE Page(FormatText,
              <<response.anger, response.disgust, response.fear,
                response.joy, response.sadness>>,
              response.dominant_emotion)

------------------------------------------------------------------------------
\* Inputs.

Blank == <<" ", "\t">>

Test == <<"t", "e", "s", "t">>

Unhappy == <<"u", "n", "h", "a", "p", "p", "y">>

Disgusted == <<"d", "i", "s", "g", "u", "s", "t", "e", "d">>

ShoutHappy == <<"H", "A", "P", "P", "Y">>

\* "I hate this, it's so sad"
HateSad ==
    <<"I", " ", "h", "a", "t", "e", " ", "t", "h", "i", "s", ",", " ", "i", "t",
      "'", "s", " ", "s", "o", " ", "s", "a", "d">>

\* "I am so happy and excited today!"
HappyExcited ==
    <<"I", " ", "a", "m", " ", "s", "o", " ", "h", "a", "p", "p", "y", " ", "a",
      "n", "d", " ", "e", "x", "c", "i", "t", "e", "d", " ", "t", "o", "d", "a",
      "y", "!">>

Vocab == {Blank, Test, Unhappy, Disgusted, ShoutHappy, HateSad, HappyExcited}

RECURSIVE Join(_)
Join(frags) == IF frags = <<>> THEN <<>> ELSE Head(frags) \o Join(Tail(frags))

\* Every text of at most MaxFrags fragments.
Texts == UNION {{Join(f) : f \in [1..n -> Vocab]} : n \in 0..MaxFrags}

\* The texts sent when the remote bodies vary.
RemoteTexts == {<<>>, Blank, Test, Unhappy}

StatusCodes == {200, 400, 404, 500}

ScoreValues == {Float(1, 10), Float(9, 10), Float(-1, 10), NaN, None}

\* Emotion objects holding at most MaxKeys of the five keys.
EmotionObjects ==
    {e \in [EmotionNames -> ScoreValues \cup {Absent}] :
        Cardinality({k \in EmotionNames : e[k] # Absent}) <= MaxKeys}

MalformedBodies == {Body(s, NoEmotions) : s \in MalformedShapes}

Bodies == MalformedBodies \cup {Body("object", e) : e \in EmotionObjects}

\* {"emotionPredictions":[{"emotion":{"joy":0.9,"anger":0.1}}]}
JoyBody ==
    Body("object", [NoEmotions EXCEPT !["joy"] = Float(9, 10),
                                      !["anger"] = Float(1, 10)])

FewBodies ==
    {Body("notjson", NoEmotions), Body("emptylist", NoEmotions), JoyBody,
          Body("object", [NoEmotions EXCEPT !["fear"] = None]),
          Body("object", [NoEmotions EXCEPT !["sadness"] = Float(-1, 10)])}

Responses == {[status_code |-> s, body |-> b] : s \in StatusCodes, b \in Bodies}

FewResponses == {[status_code |-> s, body |-> b] : s \in StatusCodes, b \in FewBodies}

------------------------------------------------------------------------------
\* The state machine.

Init ==
    /\ pc = "idle"
    /\ via = "none"
    /\ text_to_analyze = <<>>
    /\ transport = "none"
    /\ resp = NoResp
    /\ out = NoOut
    /\ buckets = NoBuckets
    /\ posts = 0
    /\ fallbacks = 0
    /\ raised = FALSE
    /\ page = NoPage

\* A part of emotion_detector ended with r.
Finish(r) ==
    /\ pc' = IF r.exc THEN "raised" ELSE "returned"
    /\ raised' = r.exc
    /\ out' = IF r.exc THEN out ELSE r.out
    /\ fallbacks' = IF r.fallback THEN fallbacks + 1 ELSE fallbacks
    /\ buckets' = IF r.fallback THEN r.buckets ELSE buckets

\* emotion_detector(text) up to requests.post.
Enter(text) ==
    /\ text_to_analyze' = text
    /\ IF is_blank(text)
       THEN /\ pc' = "returned"
            /\ out' = _none_result
            /\ posts' = posts
       ELSE /\ pc' = "posting"
            /\ out' = out
            /\ posts' = posts + 1
    /\ UNCHANGED <<transport, resp, buckets, fallbacks, raised, page>>

\* A caller other than the web layer calls emotion_detector.
EmotionDetector(T) ==
    /\ pc = "idle"
    /\ \E text \in T :
        /\ via' = "direct"
        /\ Enter(text)

\* POST /emotionDetector: the form's text is stripped and handed on.
DetectEmotion(T) ==
    /\ pc = "idle"
    /\ \E form \in T :
        /\ via' = "server"
        /\ Enter(strip(form))

\* requests.post raises (connection error, timeout, DNS failure).
PostRaises ==
    /\ pc = "posting"
    /\ transport' = "error"
    /\ \E r \in {on_post_exception(text_to_analyze)} : Finish(r)
    /\ UNCHANGED <<via, text_to_analyze, resp, posts, page>>

\* requests.post returns a response.
PostReturns(R) ==
    /\ pc = "posting"
    /\ \E r \in R :
        /\ transport' = "response"
        /\ resp' = r
        /\ \E res \in {on_response(text_to_analyze, r)} : Finish(res)
        /\ UNCHANGED <<via, text_to_analyze, posts, page>>

\* detect_emotion renders what emotion_detector returned.
Respond ==
    /\ pc = "returned"
    /\ via = "server"
    /\ page' = render(out)
    /\ pc' = "done"
    /\ UNCHANGED <<via, text_to_analyze, transport, resp, out, buckets,
                   posts, fallbacks, raised>>

Next ==
    \/ EmotionDetector(Texts)
    \/ DetectEmotion(Texts)
    \/ PostRaises
    \/ PostReturns(FewResponses)
    \/ Respond

Spec == Init /\ [][Next]_vars

NextRemote ==
    \/ EmotionDetector(RemoteTexts)
    \/ DetectEmotion(RemoteTexts)
    \/ PostRaises
    \/ PostReturns(Responses)
    \/ Respond

SpecRemote == Init /\ [][NextRemote]_vars

------------------------------------------------------------------------------
\* What the properties speak of, stated without the operators above.

AllWhitespace(s) == \A i \in 1..Len(s) : s[i] \in Whitespace

HasReturned == pc \in {"returned", "done"}

IsRejected(o) ==
    /\ o.status_code = 400
    /\ \A k \in EmotionNames : o[k] = None
    /\ o.dominant_emotion = NoDominant

IsOk(o) ==
    /\ o.status_code = 200
    /\ \A k \in EmotionNames : o[k].t = "float"
    /\ o.dominant_emotion \in EmotionNames

\* w occurs in t, character by character.
Occurs(w, t) ==
    \E i \in 0..(Len(t) - Len(w)) : \A j \in 1..Len(w) : t[i + j] = w[j]

\* The keywords of category k that occur in the lower-cased text text_l.
PresentIn(k, text_l) ==
    {w \in {Keywords[k][i] : i \in 1..Len(Keywords[k])} : Occurs(w, text_l)}

AllPresentKeywords ==
    LET text_l == lower(text_to_analyze)
    IN  UNION {PresentIn(k, text_l) : k \in EmotionNames}

\* The body of a 200 response holds an emotion object of numbers only.
Parses(body) ==
    /\ body.shape = "object"
    /\ \A k \in EmotionNames : body.emotion[k].t \in {"float", "absent"}

\* The remote call failed: it raised, answered neither 200 nor 400, or
\* answered 200 with a body that does not parse.
RemoteFailed ==
    \/ transport = "error"
    \/ /\ transport = "response"
       /\ \/ resp.status_code \notin {200, 400}
          \/ resp.status_code = 200 /\ ~Parses(resp.body)

\* a <= b as numbers; nothing compares with NaN.
Le(a, b) == ~IsNaN(a) /\ ~IsNaN(b) /\ a.n * b.d <= b.n * a.d

Index(name) == CHOOSE i \in 1..Len(Emotions) : Emotions[i] = name

\* The five scores of o add up to 1.
SumsToOne(o) ==
    LET D == o.anger.d * o.disgust.d * o.fear.d * o.joy.d * o.sadness.d
    IN  /\ D > 0
        /\ o.anger.n * (D \div o.anger.d) + o.disgust.n * (D \div o.disgust.d)
           + o.fear.n * (D \div o.fear.d) + o.joy.n * (D \div o.joy.d)
           + o.sadness.n * (D \div o.sadness.d) = D

------------------------------------------------------------------------------
\* C1: once emotion_detector has been called with a text that is empty or
\* all whitespace, it has returned the rejected result (status_code 400, the
\* five scores and dominant_emotion None) and no remote call was attempted.
C1_BlankRejectedWithoutPost ==
    (pc # "idle" /\ AllWhitespace(text_to_analyze)) =>
        /\ HasReturned
        /\ IsRejected(out)
        /\ posts = 0
        /\ transport = "none"
        /\ fallbacks = 0

\* A direct call with a non-empty whitespace-only text has been rejected.
C1_Witness ==
    /\ pc = "returned"
    /\ via = "direct"
    /\ Len(text_to_analyze) > 0
    /\ AllWhitespace(text_to_analyze)
    /\ IsRejected(out)
    /\ posts = 0

\* C2: when the remote service answered 400, whatever the body, the result
\* is the rejected one and the keyword heuristic did not run.
C2_BadRequestRejected ==
    (HasReturned /\ transport = "response" /\ resp.status_code = 400) =>
        /\ IsRejected(out)
        /\ fallbacks = 0
        /\ \A k \in EmotionNames : buckets[k] = 0

\* A 400 whose body would parse, for a text full of keywords.
C2_Witness ==
    /\ pc = "returned"
    /\ resp.status_code = 400
    /\ resp.body = JoyBody
    /\ text_to_analyze = HateSad
    /\ IsRejected(out)

\* C3: when the remote service answered 200 with a body that parses, each
\* score is the value the body holds for that emotion, 0.0 for an emotion
\* it does not hold, and status_code is 200.
C3_RemoteScoresPassedThrough ==
    (HasReturned /\ transport = "response" /\ resp.status_code = 200
        /\ Parses(resp.body)) =>
        /\ out.status_code = 200
        /\ fallbacks = 0
        /\ \A k \in EmotionNames :
              out[k] = IF resp.body.emotion[k] = Absent THEN Float(0, 1)
                       ELSE resp.body.emotion[k]

\* {"joy": 0.9, "anger": 0.1} came back as anger 0.1, joy 0.9, the rest 0.0.
C3_Witness ==
    /\ pc = "returned"
    /\ resp.status_code = 200
    /\ resp.body = JoyBody
    /\ out.anger = Float(1, 10)
    /\ out.joy = Float(9, 10)
    /\ out.disgust = Float(0, 1)
    /\ out.fear = Float(0, 1)
    /\ out.sadness = Float(0, 1)

\* C4: in every ok result dominant_emotion names a score that is at least
\* every score that is a number, and no earlier field in the order anger,
\* disgust, fear, joy, sadness holds the same score.
C4_DominantIsFirstMaximum ==
    (HasReturned /\ out.status_code = 200) =>
        /\ out.dominant_emotion \in EmotionNames
        /\ \A k \in EmotionNames :
              ~IsNaN(out[k]) => Le(out[k], out[out.dominant_emotion])
        /\ \A i \in 1..(Index(out.dominant_emotion) - 1) :
              out[Emotions[i]] # out[out.dominant_emotion]

C6_OkScoresFiniteNonNegative ==
    (HasReturned /\ out.status_code = 200) =>
        /\ \A k \in EmotionNames :
              out[k].t = "float" /\ ~IsNaN(out[k]) /\ out[k].n >= 0
        /\ out.dominant_emotion \in EmotionNames

\* C7: whatever the text and whatever the remote service does, no exception
\* leaves emotion_detector, at most one remote attempt is made, and once the
\* attempt is over the function has returned a rejected or an ok result.
C7_ReturnsWithoutRaising ==
    /\ ~raised
    /\ pc \in {"idle", "posting", "returned", "done"}
    /\ posts <= 1
    /\ pc = "posting" => posts = 1 /\ transport = "none"
    /\ transport # "none" => HasReturned
    /\ HasReturned => IsRejected(out) \/ IsOk(out)

\* A 200 whose "emotion" is no object ended in the fallback's ok result
\* after the one attempt.
C7_Witness ==
    /\ pc = "returned"
    /\ resp.status_code = 200
    /\ resp.body.shape = "nonobject"
    /\ IsOk(out)
    /\ posts = 1
    /\ fallbacks = 1

\* C8: the handler answers "Invalid text! Please try again!" exactly when
\* emotion_detector returned the rejected result, and otherwise the sentence
\* with the five scores in the order anger, disgust, fear, joy, sadness and
\* the dominant emotion, whichever path produced them.
C8_HandlerRendersResult ==
    pc = "done" =>
        /\ IsRejected(out) <=> page = Page(InvalidText, <<>>, "")
        /\ ~IsRejected(out) =>
              /\ page.template = FormatText
              /\ page.scores = <<out.anger, out.disgust, out.fear, out.joy,
                                 out.sadness>>
              /\ page.dominant = out.dominant_emotion

\* A fallback result was rendered as the sentence.
C8_Witness ==
    /\ pc = "done"
    /\ fallbacks = 1
    /\ text_to_analyze = HateSad
    /\ page.template = FormatText
    /\ page.scores = <<Float(1, 2), Float(0, 1), Float(0, 1), Float(0, 1),
                       Float(1, 2)>>
    /\ page.dominant = "anger"

\* C9: in the heuristic each counter is the number of the category's
\* keywords that occur in the lower-cased text, however often each occurs;
\* with a non-zero total each score is its counter over the total; "I am
\* so happy and excited today!" gives joy 1.0 and 0.0 elsewhere.
C9_CountersCountKeywordsPresent ==
    fallbacks = 1 =>
        LET total == buckets["anger"] + buckets["disgust"] + buckets["fear"]
                     + buckets["joy"] + buckets["sadness"]
            text_l == lower(text_to_analyze)
        IN  /\ \A k \in EmotionNames :
                  /\ buckets[k] = Cardinality(PresentIn(k, text_l))
                  /\ total # 0 =>
                        /\ out[k].d > 0
                        /\ out[k].n * total = buckets[k] * out[k].d
            /\ text_to_analyze = HappyExcited =>
                  /\ out.joy = Float(1, 1)
                  /\ \A k \in EmotionNames \ {"joy"} : out[k] = Float(0, 1)

\* "HAPPY" before the sentence: "happy" occurs twice in the lower-cased
\* text and the joy counter is still 2 (happy, excited).
C9_Witness ==
    /\ fallbacks = 1
    /\ text_to_analyze = ShoutHappy \o HappyExcited
    /\ buckets["joy"] = 2
    /\ out.joy = Float(1, 1)
    /\ out.sadness = Float(0, 1)

\* C10: on the heuristic path a text whose only keywords are those inside
\* "unhappy" gets joy 0.5 and sadness 0.5 with dominant joy, and a text
\* whose only keywords are those inside "disgusted" gets a disgust counter
\* of 2.
C10_KeywordsInsideKeywords ==
    fallbacks = 1 =>
        LET present == AllPresentKeywords IN
        /\ present = {JoyWords[1], SadnessWords[2]} =>
              /\ out.joy = Float(1, 2)
              /\ out.sadness = Float(1, 2)
              /\ out.anger = Float(0, 1)
              /\ out.disgust = Float(0, 1)
              /\ out.fear = Float(0, 1)
              /\ out.dominant_emotion = "joy"
        /\ present = {DisgustWords[1], DisgustWords[2]} =>
              /\ buckets["disgust"] = 2
              /\ out.disgust = Float(1, 1)

\* "unhappy" alone on the heuristic path.
C10_Witness ==
    /\ fallbacks = 1
    /\ text_to_analyze = Unhappy
    /\ AllPresentKeywords = {JoyWords[1], SadnessWords[2]}
    /\ out.joy = Float(1, 2)
    /\ out.dominant_emotion = "joy"

====
